---- MODULE Spec2Model ----
(***************************************************************************)
(* Model of the tracking and change-detection engine of the Steam updates  *)
(* bot: GameTracker (src/tracker.py) and the poll cycle                    *)
(* SteamBot.check_tracked_games (src/bot.py), and of the request helper    *)
(* SteamAPI._make_request (src/steam_api.py).                              *)
(*                                                                         *)
(* Python values are modelled as follows.                                  *)
(*   None            the empty tuple <<>>; a present value x is <<x>>      *)
(*   str             a string, except that str(int) is the tuple of the    *)
(*                   decimal digits of the integer                         *)
(*   dict            an association list: a sequence of [k, v] records in  *)
(*                   insertion order, as Python dicts iterate              *)
(*   list            a sequence                                            *)
(***************************************************************************)
EXTENDS Integers, Sequences, FiniteSets, TLC

VARIABLES
    tracked_games,   \* GameTracker.tracked_games
    data_file,       \* contents of game_tracking.json
    clock,           \* number of datetime.now() readings taken so far
    write_failures,  \* number of failed writes of the data file so far
    last,            \* the last call made on the tracker and what it returned
    pc,              \* check_tracked_games: "idle", suspended at "fetch" or "send", or "stopped"
    games,           \* its local games, the list taken at the start of the cycle
    gi,              \* position of the loop over games
    notifications,   \* its local notifications, for games[gi]
    channels,        \* its local channels, for games[gi]; users aliases the registry's list
    ci,              \* position of the loop over channels
    ni,              \* position of the loop over notifications
    sends,           \* the channel.send calls made in this cycle
    fetch_failed,    \* the ids whose fetch failed in this cycle
    cycle_end,       \* how check_tracked_games last ended
    cycles,          \* number of cycles started so far
    commands,        \* number of user commands served since the bot started
    session,         \* SteamAPI.session: "None" or "open"
    rq_pc,           \* _make_request: "idle", suspended at "get" or "sleep", or "returned"
    attempt,         \* its loop variable
    tried,           \* what each session.get of the call gave, in order
    retry_delay,     \* SteamAPI.retry_delay
    result,          \* how the call ended: "pending", a "mapping", "SteamAPIError" or "None"
    calls            \* number of calls of _make_request so far

trackervars == <<tracked_games, data_file, clock, write_failures, last>>
pollvars == <<pc, games, gi, notifications, channels, ci, ni, sends, fetch_failed,
              cycle_end, cycles>>
requestvars == <<session, rq_pc, attempt, tried, retry_delay, result, calls>>
vars == <<trackervars, pollvars, commands, requestvars>>

----------------------------------------------------------------------------
(* Bounds and input domains *)

MaxClock == 2
MaxWriteFailures == 1
MaxCycles == 1
MaxCommands == 1
MaxTicks == 2
MaxRequests == 2

GameIds == {730, 570}
ChannelIds == {1, 12}
UserIds == {8, 9}
Prices == {"$9.99", "$19.99"}
Dates == {"Mar 1", "Apr 2"}

(* Observations offered to update_game_data in runs that start from the    *)
(* empty store: a first observation, a change of every field, a change of  *)
(* the price alone, and an observation that determines no scalar field.    *)
(* stamped: the caller passes the time it read as last_update.             *)
FirstObservation ==
    [price |-> <<"$9.99">>, release_date |-> <<"Mar 1">>, preorder_status |-> <<>>,
     stamped |-> TRUE]

FewObservations ==
    { [price |-> <<"$9.99">>,  release_date |-> <<"Mar 1">>, preorder_status |-> <<>>,
       stamped |-> TRUE],
      [price |-> <<"$19.99">>, release_date |-> <<"Apr 2">>, preorder_status |-> <<TRUE>>,
       stamped |-> TRUE],
      [price |-> <<"$19.99">>, release_date |-> <<>>,        preorder_status |-> <<>>,
       stamped |-> FALSE],
      [price |-> <<>>,         release_date |-> <<>>,        preorder_status |-> <<FALSE>>,
       stamped |-> FALSE] }

UpdateRequests == { [game_id |-> 730, observed |-> o] : o \in FewObservations }

TrackRequests ==
    { [game_id |-> 730, game_name |-> "CS2",    channel_id |-> 1,  user_id |-> 9],
      [game_id |-> 730, game_name |-> "CS2",    channel_id |-> 1,  user_id |-> 8],
      [game_id |-> 730, game_name |-> "CS2",    channel_id |-> 12, user_id |-> 9],
      [game_id |-> 570, game_name |-> "Dota 2", channel_id |-> 1,  user_id |-> 9] }

(* untrack is asked for the watchers that track can add, present or not *)
UntrackRequests ==
    { [game_id |-> r.game_id, channel_id |-> r.channel_id, user_id |-> r.user_id] :
        r \in TrackRequests }

----------------------------------------------------------------------------
(* Python values *)

None == <<>>
Some(x) == <<x>>
Optional(S) == {None} \cup {Some(x) : x \in S}

RECURSIVE str(_)
str(n) == IF n < 10 THEN <<n>> ELSE Append(str(n \div 10), n % 10)

RECURSIVE int(_)
int(s) == IF Len(s) = 1 THEN s[1]
          ELSE 10 * int(SubSeq(s, 1, Len(s) - 1)) + s[Len(s)]

isoformat(t) == Some(t)

(* dict *)
EmptyDict == <<>>
Keys(d) == { d[i].k : i \in DOMAIN d }
Has(d, key) == key \in Keys(d)
Get(d, key) == d[CHOOSE i \in DOMAIN d : d[i].k = key].v
Put(d, key, val) ==
    IF Has(d, key)
    THEN [i \in DOMAIN d |-> IF d[i].k = key THEN [k |-> key, v |-> val] ELSE d[i]]
    ELSE Append(d, [k |-> key, v |-> val])
Del(d, key) == SelectSeq(d, LAMBDA e : e.k # key)

(* list *)
Contains(l, x) == \E i \in DOMAIN l : l[i] = x
Remove(l, x) ==
    LET i == CHOOSE j \in DOMAIN l : l[j] = x /\ \A m \in 1..(j - 1) : l[m] # x
    IN  SubSeq(l, 1, i - 1) \o SubSeq(l, i + 1, Len(l))

----------------------------------------------------------------------------
(* GameTracker *)

NewGame(game_id, game_name) ==
    [ id |-> game_id,
      name |-> game_name,
      watchers |-> EmptyDict,
      last_check |-> None,
      current_data |-> [ price |-> None,
                         release_date |-> None,
                         preorder_status |-> FALSE,
                         last_update |-> None ] ]

(* _save_tracking_data: the write either succeeds, or open() fails and the  *)
(* file is as before, or json.dump fails after open() truncated the file.   *)
(* The exception is caught and logged inside, nothing is returned.          *)
SaveOutcomes == {"ok", "open_fails", "dump_fails"}
Written == {"ok"}

(* json.dump and json.load of the registry: None is written as null, a    *)
(* str or number as itself, a dict as an object in the order of its keys,  *)
(* which are all str already (game_key, channel_key), a list as an array.  *)
JsonOptional(x) == IF x = None THEN <<"null">> ELSE <<"value", x[1]>>
PyOptional(j) == IF j[1] = "null" THEN None ELSE Some(j[2])

(* as json_dump_game, with last_check left out of what is written *)
json_dump_game_WithoutLastCheck(game) ==
    [ id |-> game.id,
      name |-> game.name,
      watchers |-> game.watchers,
      last_check |-> <<"null">>,
      current_data |-> [ price |-> JsonOptional(game.current_data.price),
                         release_date |-> JsonOptional(game.current_data.release_date),
                         preorder_status |-> game.current_data.preorder_status,
                         last_update |-> JsonOptional(game.current_data.last_update) ] ]

json_dump_game(game) ==
    [ id |-> game.id,
      name |-> game.name,
      watchers |-> game.watchers,
      last_check |-> JsonOptional(game.last_check),
      current_data |-> [ price |-> JsonOptional(game.current_data.price),
                         release_date |-> JsonOptional(game.current_data.release_date),
                         preorder_status |-> game.current_data.preorder_status,
                         last_update |-> JsonOptional(game.current_data.last_update) ] ]

json_load_game(obj) ==
    [ id |-> obj.id,
      name |-> obj.name,
      watchers |-> obj.watchers,
      last_check |-> PyOptional(obj.last_check),
      current_data |-> [ price |-> PyOptional(obj.current_data.price),
                         release_date |-> PyOptional(obj.current_data.release_date),
                         preorder_status |-> obj.current_data.preorder_status,
                         last_update |-> PyOptional(obj.current_data.last_update) ] ]

json_dump(reg) ==
    IF reg = EmptyDict THEN EmptyDict
    ELSE [i \in DOMAIN reg |-> [k |-> reg[i].k, v |-> json_dump_game(reg[i].v)]]

json_load(doc) ==
    IF doc = EmptyDict THEN EmptyDict
    ELSE [i \in DOMAIN doc |-> [k |-> doc[i].k, v |-> json_load_game(doc[i].v)]]

SavedFile(reg, file, outcome) ==
    CASE outcome = "ok"         -> [state |-> "ok", doc |-> json_dump(reg)]
      [] outcome = "open_fails" -> file
      [] outcome = "dump_fails" -> [state |-> "corrupt", doc |-> EmptyDict]

CanSave(outcome) == outcome = "ok" \/ write_failures < MaxWriteFailures

_save_tracking_data(reg, outcome) ==
    /\ CanSave(outcome)
    /\ data_file' = SavedFile(reg, data_file, outcome)
    /\ write_failures' = IF outcome = "ok" THEN write_failures ELSE write_failures + 1

(* The record of a call: its arguments, what it returned (ok for the       *)
(* boolean of track_game and untrack_game, events for the list of          *)
(* update_game_data), how often it called _save_tracking_data, and whether *)
(* it left the registry as it was; returned is the list that a query       *)
(* returned.                                                               *)
NoObservation ==
    [price |-> None, release_date |-> None, preorder_status |-> None, last_update |-> None]

Call(op, game_id, channel_id, user_id, observed, ok, events, saves, reg) ==
    [op |-> op, game_id |-> game_id, channel_id |-> channel_id, user_id |-> user_id,
     observed |-> observed, ok |-> ok, events |-> events, saves |-> saves,
     unchanged |-> reg = tracked_games, returned |-> <<>>]

NoCall == [op |-> "init", game_id |-> 0, channel_id |-> 0, user_id |-> 0,
           observed |-> NoObservation, ok |-> TRUE, events |-> <<>>, saves |-> 0,
           unchanged |-> TRUE, returned |-> <<>>]

(* as TrackCreated, without the test of line 47 *)
TrackCreated_Always(reg, game_id, game_name) ==
    Put(reg, str(game_id), NewGame(game_id, game_name))

(* track_game: the registry after lines 46-66 *)
TrackCreated(reg, game_id, game_name) ==
    IF ~Has(reg, str(game_id))
    THEN Put(reg, str(game_id), NewGame(game_id, game_name))
    ELSE reg

(* as TrackWatchers, without the test of line 65 *)
TrackWatchers_AppendsAlways(w, channel_id, user_id) ==
    LET w1 == IF ~Has(w, str(channel_id)) THEN Put(w, str(channel_id), <<>>) ELSE w
    IN  Put(w1, str(channel_id), Append(Get(w1, str(channel_id)), user_id))

TrackWatchers(w, channel_id, user_id) ==
    LET w1 == IF ~Has(w, str(channel_id)) THEN Put(w, str(channel_id), <<>>) ELSE w
        users == Get(w1, str(channel_id))
    IN  IF ~Contains(users, user_id)
        THEN Put(w1, str(channel_id), Append(users, user_id))
        ELSE w1

TrackedRegistry(reg, game_id, game_name, channel_id, user_id) ==
    LET reg1 == TrackCreated(reg, game_id, game_name)
        game == Get(reg1, str(game_id))
    IN  Put(reg1, str(game_id),
            [game EXCEPT !.watchers = TrackWatchers(@, channel_id, user_id)])

(* The users list that channels holds is the list object of the registry   *)
(* (line 197), so append (line 66) and remove (line 87) on that object show *)
(* through it; del (lines 91, 93) detaches it, and a later track makes a    *)
(* new list.                                                                *)
Aliased(game_id) == pc = "send" /\ games[gi].id = game_id

AppendAliased(chs, channel_id, user_id) ==
    [i \in DOMAIN chs |->
        IF chs[i].channel_id = channel_id /\ chs[i].live /\ ~Contains(chs[i].users, user_id)
        THEN [chs[i] EXCEPT !.users = Append(@, user_id)]
        ELSE chs[i]]

RemoveAliased(chs, channel_id, user_id) ==
    [i \in DOMAIN chs |->
        IF chs[i].channel_id = channel_id /\ chs[i].live
        THEN [chs[i] EXCEPT !.users = Remove(@, user_id),
                            !.live = Remove(chs[i].users, user_id) # <<>>]
        ELSE chs[i]]

track_game(game_id, game_name, channel_id, user_id, outcome) ==
    /\ CanSave(outcome)
    /\ channels' = IF Aliased(game_id) THEN AppendAliased(channels, channel_id, user_id)
                   ELSE channels
    /\ tracked_games' = TrackedRegistry(tracked_games, game_id, game_name, channel_id, user_id)
    /\ _save_tracking_data(tracked_games', outcome)
    /\ last' = Call("track", game_id, channel_id, user_id, NoObservation, TRUE, <<>>, 1,
                    tracked_games')
    /\ UNCHANGED clock

otherpollvars == <<pc, games, gi, notifications, ci, ni, sends, fetch_failed,
                   cycle_end, cycles>>

TrackAmong(requests, outcomes) ==
    /\ \E r \in requests, outcome \in outcomes :
           track_game(r.game_id, r.game_name, r.channel_id, r.user_id, outcome)
    /\ UNCHANGED otherpollvars

TrackCall(outcomes) == TrackAmong(TrackRequests, outcomes)

(* track of a game under another name than the one it was first tracked    *)
(* with, as a search result can give it                                    *)
RenamedRequests ==
    { [game_id |-> 730, game_name |-> "Counter-Strike 2", channel_id |-> 12, user_id |-> 8] }

TrackRenamed == TrackAmong(RenamedRequests, Written) /\ UNCHANGED <<commands, requestvars>>

Track == TrackCall(Written) /\ UNCHANGED <<commands, requestvars>>

TrackOnDisk == TrackCall(SaveOutcomes) /\ UNCHANGED <<commands, requestvars>>

(* untrack_game: the registry after lines 87-93, when the user is a watcher *)
IsWatcher(reg, game_id, channel_id, user_id) ==
    /\ Has(reg, str(game_id))
    /\ Has(Get(reg, str(game_id)).watchers, str(channel_id))
    /\ Contains(Get(Get(reg, str(game_id)).watchers, str(channel_id)), user_id)

(* as UntrackWatchers, without the del of line 91 *)
UntrackWatchers_KeepsEmptyChannel(w, channel_id, user_id) ==
    Put(w, str(channel_id), Remove(Get(w, str(channel_id)), user_id))

UntrackWatchers(w, channel_id, user_id) ==
    LET users == Remove(Get(w, str(channel_id)), user_id)
    IN  IF users = <<>> THEN Del(w, str(channel_id)) ELSE Put(w, str(channel_id), users)

(* as UntrackedRegistry, with the del of line 93 not under the test of      *)
(* line 92                                                                  *)
UntrackedRegistry_DropsEntity(reg, game_id, channel_id, user_id) ==
    Del(reg, str(game_id))

UntrackedRegistry(reg, game_id, channel_id, user_id) ==
    LET game == Get(reg, str(game_id))
        w == UntrackWatchers(game.watchers, channel_id, user_id)
    IN  IF w = EmptyDict
        THEN Del(reg, str(game_id))
        ELSE Put(reg, str(game_id), [game EXCEPT !.watchers = w])

untrack_game(game_id, channel_id, user_id, outcome) ==
    IF IsWatcher(tracked_games, game_id, channel_id, user_id)
    THEN /\ CanSave(outcome)
         /\ channels' = IF Aliased(game_id) THEN RemoveAliased(channels, channel_id, user_id)
                        ELSE channels
         /\ tracked_games' = UntrackedRegistry(tracked_games, game_id, channel_id, user_id)
         /\ _save_tracking_data(tracked_games', outcome)
         /\ last' = Call("untrack", game_id, channel_id, user_id, NoObservation, TRUE,
                         <<>>, 1, tracked_games')
         /\ UNCHANGED clock
    ELSE /\ outcome = "ok"
         /\ last' = Call("untrack", game_id, channel_id, user_id, NoObservation, FALSE,
                         <<>>, 0, tracked_games)
         /\ UNCHANGED <<tracked_games, data_file, write_failures, clock, channels>>

UntrackCall(outcomes) ==
    /\ \E r \in UntrackRequests, outcome \in outcomes :
           untrack_game(r.game_id, r.channel_id, r.user_id, outcome)
    /\ UNCHANGED otherpollvars

Untrack == UntrackCall(Written) /\ UNCHANGED <<commands, requestvars>>

UntrackOnDisk == UntrackCall(SaveOutcomes) /\ UNCHANGED <<commands, requestvars>>

(* a call of one of the two queries: its arguments and the list returned *)
Query(op, game_id, channel_id, user_id, returned) ==
    [NoCall EXCEPT !.op = op, !.game_id = game_id, !.channel_id = channel_id,
                   !.user_id = user_id, !.returned = returned]

(* as Listed, with the test of line 114 made only when a user_id is given *)
Listed_IgnoresChannel(game_data, channel_id, user_id) ==
    IF channel_id # None /\ user_id # None
    THEN /\ Has(game_data.watchers, str(channel_id[1]))
         /\ Contains(Get(game_data.watchers, str(channel_id[1])), user_id[1])
    ELSE TRUE

(* get_tracked_games *)
Listed(game_data, channel_id, user_id) ==
    IF channel_id # None
    THEN /\ Has(game_data.watchers, str(channel_id[1]))
         /\ ~(user_id # None
              /\ ~Contains(Get(game_data.watchers, str(channel_id[1])), user_id[1]))
    ELSE TRUE

Summary(game_data) ==
    [id |-> game_data.id, name |-> game_data.name, current_data |-> game_data.current_data]

RECURSIVE ListFrom(_, _, _, _)
ListFrom(reg, i, channel_id, user_id) ==
    IF i > Len(reg) THEN <<>>
    ELSE (IF Listed(reg[i].v, channel_id, user_id) THEN <<Summary(reg[i].v)>> ELSE <<>>)
         \o ListFrom(reg, i + 1, channel_id, user_id)

(* as get_tracked_games, with a user_id given without channel_id compared  *)
(* with the users of every channel                                         *)
get_tracked_games_FiltersUserAlone(reg, channel_id, user_id) ==
    IF channel_id = None /\ user_id # None
    THEN LET watched == SelectSeq(reg, LAMBDA e :
                            \E j \in DOMAIN e.v.watchers :
                                Contains(e.v.watchers[j].v, user_id[1]))
         IN  [i \in DOMAIN watched |-> Summary(watched[i].v)]
    ELSE ListFrom(reg, 1, channel_id, user_id)

get_tracked_games(reg, channel_id, user_id) == ListFrom(reg, 1, channel_id, user_id)

(* a caller lists the games: the track command's siblings and the cycle *)
ListGames ==
    /\ \E channel_id \in Optional(ChannelIds), user_id \in Optional(UserIds) :
           last' = Query("list", 0, channel_id, user_id,
                         get_tracked_games(tracked_games, channel_id, user_id))
    /\ UNCHANGED <<tracked_games, data_file, clock, write_failures, pollvars, commands, requestvars>>

(* update_game_data: notifications and snapshot of lines 139-173 *)
PriceChanged(current, price) == price # None /\ price # current.price
DateChanged(current, release_date) ==
    release_date # None /\ release_date # current.release_date
(* as PreorderChanged, with "if preorder_status:" for the test of line 164 *)
PreorderChanged_WheneverAvailable(current, preorder_status) ==
    preorder_status # None /\ preorder_status[1]

PreorderChanged(current, preorder_status) ==
    preorder_status # None /\ preorder_status[1] # current.preorder_status

PriceEvent(game_name, current, price) ==
    IF PriceChanged(current, price) /\ current.price # None
    THEN << [type |-> "price",
             message |-> <<"Price Update", game_name, current.price[1], price[1]>>] >>
    ELSE <<>>

DateEvent(game_name, current, release_date) ==
    IF DateChanged(current, release_date) /\ current.release_date # None
    THEN << [type |-> "release_date",
             message |-> <<"Release Date Changed", game_name,
                           current.release_date[1], release_date[1]>>] >>
    ELSE <<>>

(* as PreorderEvent, with "if preorder_status and ..." in line 164 *)
PreorderEvent_OnlyWhenAvailable(game_name, current, preorder_status) ==
    IF PreorderChanged(current, preorder_status) /\ preorder_status[1]
    THEN << [type |-> "preorder",
             message |-> <<"Pre-order Status Update", game_name, "available",
                           "for pre-order">>] >>
    ELSE <<>>

PreorderEvent(game_name, current, preorder_status) ==
    IF PreorderChanged(current, preorder_status)
    THEN << [type |-> "preorder",
             message |-> <<"Pre-order Status Update", game_name,
                           IF preorder_status[1] THEN "available" ELSE "unavailable",
                           "for pre-order">>] >>
    ELSE <<>>

(* as Notifications, with the block of lines 164-170 first *)
Notifications_PreorderFirst(game, price, release_date, preorder_status) ==
    PreorderEvent(game.name, game.current_data, preorder_status)
    \o PriceEvent(game.name, game.current_data, price)
    \o DateEvent(game.name, game.current_data, release_date)

Notifications(game, price, release_date, preorder_status) ==
    PriceEvent(game.name, game.current_data, price)
    \o DateEvent(game.name, game.current_data, release_date)
    \o PreorderEvent(game.name, game.current_data, preorder_status)

(* as UpdatedData, with the assignments of lines 152 and 162 under the     *)
(* inner if                                                                *)
UpdatedData_StoresOnlyWithEvent(current, price, release_date, preorder_status, last_update) ==
    [ price |-> IF PriceChanged(current, price) /\ current.price # None
                THEN price ELSE current.price,
      release_date |-> IF DateChanged(current, release_date) /\ current.release_date # None
                       THEN release_date ELSE current.release_date,
      preorder_status |-> IF PreorderChanged(current, preorder_status)
                          THEN preorder_status[1] ELSE current.preorder_status,
      last_update |-> IF last_update # None THEN last_update ELSE current.last_update ]

(* as UpdatedData, with the assignments of lines 152 and 162 outside the   *)
(* tests of lines 144 and 154                                              *)
UpdatedData_StoresAbsent(current, price, release_date, preorder_status, last_update) ==
    [ price |-> price,
      release_date |-> release_date,
      preorder_status |-> IF PreorderChanged(current, preorder_status)
                          THEN preorder_status[1] ELSE current.preorder_status,
      last_update |-> IF last_update # None THEN last_update ELSE current.last_update ]

UpdatedData(current, price, release_date, preorder_status, last_update) ==
    [ price |-> IF PriceChanged(current, price) THEN price ELSE current.price,
      release_date |-> IF DateChanged(current, release_date)
                       THEN release_date ELSE current.release_date,
      preorder_status |-> IF PreorderChanged(current, preorder_status)
                          THEN preorder_status[1] ELSE current.preorder_status,
      last_update |-> IF last_update # None THEN last_update ELSE current.last_update ]

(* as UpdatedRegistry, with line 175 only when a compared field changed *)
UpdatedRegistry_ChecksOnChange(reg, game_id, price, release_date, preorder_status, last_update, now) ==
    LET game == Get(reg, str(game_id))
        changed == \/ PriceChanged(game.current_data, price)
                   \/ DateChanged(game.current_data, release_date)
                   \/ PreorderChanged(game.current_data, preorder_status)
    IN  Put(reg, str(game_id),
            [game EXCEPT !.current_data = UpdatedData(@, price, release_date,
                                                      preorder_status, last_update),
                         !.last_check = IF changed THEN isoformat(now) ELSE @])

UpdatedRegistry(reg, game_id, price, release_date, preorder_status, last_update, now) ==
    LET game == Get(reg, str(game_id))
    IN  Put(reg, str(game_id),
            [game EXCEPT !.current_data = UpdatedData(@, price, release_date,
                                                      preorder_status, last_update),
                         !.last_check = isoformat(now)])

(* as update_game_data, with an entry made for an id that is not tracked   *)
(* in place of the return of lines 136-137                                 *)
update_game_data_CreatesUntracked(t0, game_id, price, release_date, preorder_status, last_update, outcome) ==
    LET reg == TrackCreated(tracked_games, game_id, "")
    IN  /\ CanSave(outcome)
        /\ clock' = t0 + 1
        /\ tracked_games' = UpdatedRegistry(reg, game_id, price, release_date,
                                            preorder_status, last_update, clock')
        /\ _save_tracking_data(tracked_games', outcome)
        /\ last' = Call("update", game_id, 0, 0,
                        [price |-> price, release_date |-> release_date,
                         preorder_status |-> preorder_status, last_update |-> last_update],
                        TRUE,
                        Notifications(Get(reg, str(game_id)), price, release_date,
                                      preorder_status),
                        1, tracked_games')

(* as update_game_data, without the return of lines 136-137: the save of   *)
(* line 176 is reached for an id that is not tracked                       *)
update_game_data_SavesUntracked(t0, game_id, price, release_date, preorder_status, last_update, outcome) ==
    /\ CanSave(outcome)
    /\ clock' = t0 + 1
    /\ tracked_games' =
           IF Has(tracked_games, str(game_id))
           THEN UpdatedRegistry(tracked_games, game_id, price, release_date,
                                preorder_status, last_update, clock')
           ELSE tracked_games
    /\ _save_tracking_data(tracked_games', outcome)
    /\ last' = Call("update", game_id, 0, 0,
                    [price |-> price, release_date |-> release_date,
                     preorder_status |-> preorder_status, last_update |-> last_update],
                    TRUE,
                    IF Has(tracked_games, str(game_id))
                    THEN Notifications(Get(tracked_games, str(game_id)), price,
                                       release_date, preorder_status)
                    ELSE <<>>,
                    1, tracked_games')

update_game_data(t0, game_id, price, release_date, preorder_status, last_update, outcome) ==
    IF ~Has(tracked_games, str(game_id))
    THEN /\ outcome = "ok"
         /\ last' = Call("update", game_id, 0, 0,
                         [price |-> price, release_date |-> release_date,
                          preorder_status |-> preorder_status, last_update |-> last_update],
                         TRUE, <<>>, 0, tracked_games)
         /\ clock' = t0
         /\ UNCHANGED <<tracked_games, data_file, write_failures>>
    ELSE /\ CanSave(outcome)
         /\ clock' = t0 + 1
         /\ tracked_games' = UpdatedRegistry(tracked_games, game_id, price, release_date,
                                             preorder_status, last_update, clock')
         /\ _save_tracking_data(tracked_games', outcome)
         /\ last' = Call("update", game_id, 0, 0,
                         [price |-> price, release_date |-> release_date,
                          preorder_status |-> preorder_status, last_update |-> last_update],
                         TRUE,
                         Notifications(Get(tracked_games, str(game_id)), price,
                                       release_date, preorder_status),
                         1, tracked_games')

(* every observation of the three compared fields, passed with a           *)
(* last_update, and the observations above, two of which come without      *)
AllObservations ==
    [price : Optional(Prices), release_date : Optional(Dates),
     preorder_status : Optional(BOOLEAN), stamped : {TRUE}]
    \cup FewObservations

(* a direct call of update_game_data, as a test or another caller makes it *)
Update(requests, outcomes) ==
    /\ clock < MaxClock
    /\ \E r \in requests, outcome \in outcomes :
           update_game_data(clock, r.game_id, r.observed.price, r.observed.release_date,
                            r.observed.preorder_status,
                            IF r.observed.stamped THEN isoformat(clock) ELSE None, outcome)
    /\ UNCHANGED <<pollvars, commands, requestvars>>

ApplyUpdate == Update(UpdateRequests, Written)

ApplyUpdateOnDisk == Update(UpdateRequests, SaveOutcomes)

ApplyAnyUpdate ==
    Update([game_id : {730}, observed : AllObservations]
           \cup {[game_id |-> 570, observed |-> FirstObservation]}, Written)

(* get_notification_channels *)
RECURSIVE ChannelsFrom(_, _)
ChannelsFrom(w, i) ==
    IF i > Len(w) THEN <<>>
    ELSE <<[channel_id |-> int(w[i].k), users |-> w[i].v, live |-> TRUE]>>
         \o ChannelsFrom(w, i + 1)

(* as get_notification_channels, with a return inside the loop of line 194 *)
get_notification_channels_FirstChannel(reg, game_id) ==
    IF ~Has(reg, str(game_id)) THEN <<>>
    ELSE SubSeq(ChannelsFrom(Get(reg, str(game_id)).watchers, 1), 1, 1)

get_notification_channels(reg, game_id) ==
    IF ~Has(reg, str(game_id)) THEN <<>>
    ELSE ChannelsFrom(Get(reg, str(game_id)).watchers, 1)

(* a caller asks for the channels of a game *)
NotificationTargets ==
    /\ \E game_id \in GameIds :
           last' = Query("targets", game_id, 0, 0,
                         get_notification_channels(tracked_games, game_id))
    /\ UNCHANGED <<tracked_games, data_file, clock, write_failures, pollvars, commands, requestvars>>

----------------------------------------------------------------------------

----------------------------------------------------------------------------
(* SteamBot.check_tracked_games *)

(* What the store API answers for one appid: the request or the decoding   *)
(* raises, the status is not 200, the body has no data for the id, or the  *)
(* body has data, of which final_formatted, date and coming_soon are read. *)
Exceptions == {"ClientError", "ContentTypeError", "HTTPException"}

PollObservations ==
    { [price |-> <<"$19.99">>, release_date |-> <<"Mar 1">>, coming_soon |-> FALSE],
      [price |-> <<"$19.99">>, release_date |-> <<"Apr 2">>, coming_soon |-> TRUE],
      [price |-> <<>>,         release_date |-> <<>>,        coming_soon |-> FALSE] }

(* except Exception (line 102): every exception class that the fetch, the  *)
(* registry and the send raise derives from Exception.                     *)
(* as CaughtByExcept, with "except aiohttp.ClientError" *)
CaughtByExcept_ClientErrorOnly(exc) == exc \in {"ClientError", "ContentTypeError"}

CaughtByExcept(exc) == exc \in Exceptions

(* An exception leaves the loop over games. Caught, the coroutine returns   *)
(* and the loop of line 60 schedules the next cycle; not caught, it ends    *)
(* the task of the loop.                                                    *)
Raised(exc) ==
    /\ pc' = IF CaughtByExcept(exc) THEN "idle" ELSE "stopped"
    /\ cycle_end' = IF CaughtByExcept(exc) THEN "caught" ELSE "escaped"
    /\ notifications' = <<>>
    /\ channels' = <<>>
    /\ UNCHANGED <<gi, ci, ni, sends>>

(* the loop over games moves on, or the cycle completes *)
NextGame ==
    /\ notifications' = <<>>
    /\ channels' = <<>>
    /\ UNCHANGED <<ci, ni, sends>>
    /\ IF gi < Len(games)
       THEN /\ pc' = "fetch"
            /\ gi' = gi + 1
            /\ UNCHANGED cycle_end
       ELSE /\ pc' = "idle"
            /\ cycle_end' = "completed"
            /\ UNCHANGED gi

(* as StartCycle, were the coroutine called at every interval whether or   *)
(* not the call before it has returned                                     *)
StartCycle_WhileRunning(max) ==
    /\ cycles < max
    /\ cycles' = cycles + 1
    /\ games' = get_tracked_games(tracked_games, None, None)
    /\ sends' = <<>>
    /\ fetch_failed' = {}
    /\ notifications' = <<>>
    /\ channels' = <<>>
    /\ ci' = 0
    /\ ni' = 0
    /\ IF games' = <<>>
       THEN pc' = "idle" /\ gi' = 0 /\ cycle_end' = "completed"
       ELSE pc' = "fetch" /\ gi' = 1 /\ cycle_end' = "running"
    /\ UNCHANGED <<trackervars, commands, requestvars>>

(* the tick of tasks.loop (line 60) and lines 64-65, up to the first await. *)
(* The loop started by setup_hook (line 57) is one task that awaits the     *)
(* coroutine and only then sleeps until the next interval, so a call        *)
(* begins only when the call before it has returned.                        *)
StartCycle(max) ==
    /\ pc = "idle"
    /\ cycles < max
    /\ cycles' = cycles + 1
    /\ games' = get_tracked_games(tracked_games, None, None)
    /\ sends' = <<>>
    /\ fetch_failed' = {}
    /\ notifications' = <<>>
    /\ channels' = <<>>
    /\ ci' = 0
    /\ ni' = 0
    /\ IF games' = <<>>
       THEN pc' = "idle" /\ gi' = 0 /\ cycle_end' = "completed"
       ELSE pc' = "fetch" /\ gi' = 1 /\ cycle_end' = "running"
    /\ UNCHANGED <<trackervars, commands, requestvars>>

Tick == StartCycle(MaxCycles)

(* the ticks of a bot that receives no command *)
TickAlone == StartCycle(MaxTicks)

(* the channel.send call of line 100 for channels[c] and notifications[n]; *)
(* users_mention is built from the users list as it is at the call         *)
SendCall(chs, c, n, notifs) ==
    [game_id |-> games[gi].id, channel_id |-> chs[c].channel_id,
     users |-> chs[c].users, type |-> notifs[n].type]

(* lines 89-91 from channels[from] on: get_channel resolves the channels in *)
(* resolvable; the first send is called, or no channel is left              *)
Resolving(chs, from, resolvable) ==
    { i \in from..Len(chs) : chs[i].channel_id \in resolvable }

FirstResolving(chs, from, resolvable) ==
    CHOOSE i \in Resolving(chs, from, resolvable) :
        \A j \in Resolving(chs, from, resolvable) : i <= j

SendFrom(chs, from, notifs, resolvable) ==
    IF Resolving(chs, from, resolvable) # {}
    THEN /\ pc' = "send"
         /\ ci' = FirstResolving(chs, from, resolvable)
         /\ ni' = 1
         /\ sends' = Append(sends, SendCall(chs, ci', 1, notifs))
         /\ notifications' = notifs
         /\ channels' = chs
         /\ UNCHANGED <<gi, cycle_end>>
    ELSE NextGame

(* session.get or response.json raises *)
FetchRaises ==
    /\ pc = "fetch"
    /\ \E exc \in {"ClientError", "ContentTypeError"} : Raised(exc)
    /\ fetch_failed' = fetch_failed \cup {games[gi].id}
    /\ UNCHANGED <<trackervars, games, cycles, commands, requestvars>>

(* as FetchNoData, without the test of line 76: update_game_data is called *)
(* with what an empty game_data gives                                      *)
FetchNoData_Updates ==
    /\ pc = "fetch"
    /\ update_game_data(clock + 1, games[gi].id, None, None, Some(FALSE),
                        isoformat(clock + 1), "ok")
    /\ NextGame
    /\ fetch_failed' = fetch_failed \cup {games[gi].id}
    /\ UNCHANGED <<games, cycles, commands, requestvars>>

(* response.status is not 200 (line 72), or game_data is empty (line 76) *)
FetchNoData ==
    /\ pc = "fetch"
    /\ NextGame
    /\ fetch_failed' = fetch_failed \cup {games[gi].id}
    /\ UNCHANGED <<trackervars, games, cycles, commands, requestvars>>

(* lines 78-91: the fetch returns data, the snapshot is updated, and the    *)
(* cycle runs on to its first send or to the fetch of the next game         *)
FetchAndUpdate(outcomes) ==
    /\ pc = "fetch"
    /\ \E o \in PollObservations, outcome \in outcomes :
          update_game_data(clock + 1, games[gi].id, o.price, o.release_date,
                           Some(o.coming_soon), isoformat(clock + 1), outcome)
    /\ IF last'.events # <<>>
       THEN \E resolvable \in SUBSET ChannelIds :
               SendFrom(get_notification_channels(tracked_games', games[gi].id), 1,
                        last'.events, resolvable)
       ELSE NextGame
    /\ UNCHANGED <<games, fetch_failed, cycles, commands, requestvars>>

FetchData == FetchAndUpdate(Written)

FetchDataOnDisk == FetchAndUpdate(SaveOutcomes)

(* line 100 returns: the next notification goes to the same channel, or the *)
(* loop over channels moves on                                              *)
SendReturns ==
    /\ pc = "send"
    /\ IF ni < Len(notifications)
       THEN /\ ni' = ni + 1
            /\ sends' = Append(sends, SendCall(channels, ci, ni', notifications))
            /\ UNCHANGED <<pc, gi, ci, notifications, channels, cycle_end>>
       ELSE \E resolvable \in SUBSET ChannelIds :
               SendFrom(channels, ci + 1, notifications, resolvable)
    /\ UNCHANGED <<trackervars, games, fetch_failed, cycles, commands, requestvars>>

(* line 100 raises *)
SendRaises ==
    /\ pc = "send"
    /\ Raised("HTTPException")
    /\ UNCHANGED <<trackervars, games, fetch_failed, cycles, commands, requestvars>>

----------------------------------------------------------------------------
(* SteamAPI._make_request *)

notrequestvars == <<trackervars, pollvars, commands>>

(* SteamAPI.start *)
start ==
    /\ session = "None"
    /\ session' = "open"
    /\ UNCHANGED <<rq_pc, attempt, tried, retry_delay, result, calls>>
    /\ UNCHANGED notrequestvars

(* the function is left: by return with a mapping, by raise of             *)
(* SteamAPIError, or by the end of its body, which returns None            *)
Ends(how) ==
    /\ rq_pc' = "returned"
    /\ result' = how

(* the for loop of line 127 is exhausted: nothing follows it in the body *)
LoopEnds == Ends("None")

(* lines 118-127: a call that no other call is in; without a session it    *)
(* raises, with one it comes to the first session.get                      *)
MakeRequest ==
    /\ rq_pc \in {"idle", "returned"}
    /\ calls < MaxRequests
    /\ calls' = calls + 1
    /\ tried' = <<>>
    /\ attempt' = 0
    /\ IF session = "None"
       THEN Ends("SteamAPIError")
       ELSE rq_pc' = "get" /\ result' = "pending"
    /\ UNCHANGED <<session, retry_delay>>
    /\ UNCHANGED notrequestvars

(* lines 133-152: status 200 and a body that decodes *)
Responds200 ==
    /\ rq_pc = "get"
    /\ tried' = Append(tried, "200")
    /\ Ends("mapping")
    /\ UNCHANGED <<session, attempt, retry_delay, calls>>
    /\ UNCHANGED notrequestvars

(* lines 134-139: status 429 doubles retry_delay and sleeps *)
Responds429 ==
    /\ rq_pc = "get"
    /\ tried' = Append(tried, "429")
    /\ retry_delay' = retry_delay * 2
    /\ rq_pc' = "sleep"
    /\ UNCHANGED <<session, attempt, result, calls>>
    /\ UNCHANGED notrequestvars

(* lines 142-147: another status raises SteamAPIError, which the except of *)
(* line 154 does not catch                                                 *)
RespondsOtherStatus ==
    /\ rq_pc = "get"
    /\ tried' = Append(tried, "status")
    /\ Ends("SteamAPIError")
    /\ UNCHANGED <<session, attempt, retry_delay, calls>>
    /\ UNCHANGED notrequestvars

(* lines 154-160: session.get or response.json raises aiohttp.ClientError; *)
(* the third attempt raises SteamAPIError, an earlier one sleeps           *)
NetworkError ==
    /\ rq_pc = "get"
    /\ tried' = Append(tried, "ClientError")
    /\ IF attempt = 2
       THEN Ends("SteamAPIError")
       ELSE rq_pc' = "sleep" /\ UNCHANGED result
    /\ UNCHANGED <<session, attempt, retry_delay, calls>>
    /\ UNCHANGED notrequestvars

(* lines 140, 161: asyncio.sleep returns and continue takes the next value *)
(* of range(3), or the loop ends                                           *)
Continue ==
    /\ rq_pc = "sleep"
    /\ IF attempt < 2
       THEN rq_pc' = "get" /\ attempt' = attempt + 1 /\ UNCHANGED result
       ELSE LoopEnds /\ UNCHANGED attempt
    /\ UNCHANGED <<session, tried, retry_delay, calls>>
    /\ UNCHANGED notrequestvars

(* get_player_count, lines 206-217: what the caller makes of the result;   *)
(* data.get on None raises AttributeError, caught like SteamAPIError       *)
get_player_count(how) == IF how = "mapping" THEN "player_count" ELSE "0"

(* setup_hook has not started a cycle yet *)
PollIdle ==
    /\ pc = "idle"
    /\ games = <<>>
    /\ gi = 0
    /\ notifications = <<>>
    /\ channels = <<>>
    /\ ci = 0
    /\ ni = 0
    /\ sends = <<>>
    /\ fetch_failed = {}
    /\ cycle_end = "none"
    /\ cycles = 0
    /\ commands = 0
    /\ session = "None"
    /\ rq_pc = "idle"
    /\ attempt = 0
    /\ tried = <<>>
    /\ retry_delay = 5
    /\ result = "pending"
    /\ calls = 0

(* __init__: no data file exists, the registry starts empty *)
Init ==
    /\ tracked_games = EmptyDict
    /\ data_file = [state |-> "absent", doc |-> EmptyDict]
    /\ clock = 0
    /\ write_failures = 0
    /\ last = NoCall
    /\ PollIdle

Next == Track \/ Untrack \/ ApplyUpdate

Spec == Init /\ [][Next]_vars

(* the same calls when writes of the data file can fail *)
NextOnDisk == TrackOnDisk \/ UntrackOnDisk \/ ApplyUpdateOnDisk

SpecOnDisk == Init /\ [][NextOnDisk]_vars

(* __init__ when an earlier run left a data file: the registry is what     *)
(* _load_tracking_data reads. Timestamps of the earlier run are 0.          *)
StoredGame(game_id, game_name, watchers, current_data, last_check) ==
    [NewGame(game_id, game_name) EXCEPT !.watchers = watchers,
                                        !.current_data = current_data,
                                        !.last_check = last_check]

StoredData ==
    [price : Optional(Prices), release_date : Optional(Dates),
     preorder_status : BOOLEAN, last_update : Optional({0})]

Bystander ==
    StoredGame(440, "Team Fortress 2", <<[k |-> str(12), v |-> <<8>>]>>,
               [price |-> <<"$9.99">>, release_date |-> None,
                preorder_status |-> TRUE, last_update |-> <<0>>], <<0>>)

StoredRegistries ==
    { <<[k |-> str(440), v |-> Bystander], [k |-> str(730), v |-> g]>> :
        g \in {StoredGame(730, "CS2", <<[k |-> str(1), v |-> <<9>>]>>, NewGame(730, "CS2").current_data, None)}
              \cup {StoredGame(730, "CS2", <<[k |-> str(1), v |-> <<9>>]>>, d, <<0>>) : d \in StoredData} }

_load_tracking_data(file) == IF file.state = "ok" THEN json_load(file.doc) ELSE EmptyDict

InitStored ==
    /\ data_file \in {[state |-> "ok", doc |-> json_dump(r)] : r \in StoredRegistries}
    /\ tracked_games = _load_tracking_data(data_file)
    /\ clock = 0
    /\ write_failures = 0
    /\ last = NoCall
    /\ PollIdle

NextUpdate == ApplyAnyUpdate

SpecUpdate == InitStored /\ [][NextUpdate]_vars

(* The bot with two games on file, and the commands of its users arriving   *)
(* while check_tracked_games is suspended or idle.                          *)
PollRegistry ==
    << [k |-> str(730),
        v |-> StoredGame(730, "CS2",
                         <<[k |-> str(1), v |-> <<9>>], [k |-> str(12), v |-> <<9>>]>>,
                         [price |-> <<"$9.99">>, release_date |-> <<"Mar 1">>,
                          preorder_status |-> FALSE, last_update |-> <<0>>], <<0>>)],
       [k |-> str(570),
        v |-> StoredGame(570, "Dota 2", <<[k |-> str(1), v |-> <<9>>]>>,
                         [price |-> <<"$9.99">>, release_date |-> <<"Mar 1">>,
                          preorder_status |-> FALSE, last_update |-> <<0>>], <<0>>)] >>

InitPoll ==
    /\ data_file = [state |-> "ok", doc |-> json_dump(PollRegistry)]
    /\ tracked_games = _load_tracking_data(data_file)
    /\ clock = 0
    /\ write_failures = 0
    /\ last = NoCall
    /\ PollIdle

(* the commands run between two awaits of the cycle, or while it is idle *)
UserTrack ==
    /\ commands < MaxCommands
    /\ commands' = commands + 1
    /\ UNCHANGED requestvars
    /\ TrackCall(Written)

UserUntrack ==
    /\ commands < MaxCommands
    /\ commands' = commands + 1
    /\ UNCHANGED requestvars
    /\ UntrackCall(Written)

NextPoll ==
    \/ Tick
    \/ FetchRaises
    \/ FetchNoData
    \/ FetchData
    \/ SendReturns
    \/ SendRaises
    \/ UserTrack
    \/ UserUntrack

SpecPoll == InitPoll /\ [][NextPoll]_vars

(* the same bot when writes of the data file can fail *)
UserTrackOnDisk ==
    /\ commands < MaxCommands
    /\ commands' = commands + 1
    /\ UNCHANGED requestvars
    /\ TrackCall(SaveOutcomes)

UserUntrackOnDisk ==
    /\ commands < MaxCommands
    /\ commands' = commands + 1
    /\ UNCHANGED requestvars
    /\ UntrackCall(SaveOutcomes)

NextPollOnDisk ==
    \/ Tick
    \/ FetchRaises
    \/ FetchNoData
    \/ FetchDataOnDisk
    \/ SendReturns
    \/ SendRaises
    \/ UserTrackOnDisk
    \/ UserUntrackOnDisk

SpecPollOnDisk == InitPoll /\ [][NextPollOnDisk]_vars

(* check_tracked_games on its own, over several intervals *)
NextTicks ==
    \/ TickAlone
    \/ FetchRaises
    \/ FetchNoData
    \/ FetchData
    \/ SendReturns
    \/ SendRaises

SpecTicks == InitPoll /\ [][NextTicks]_vars

(* The calls of _make_request of a client, before and after start *)
NextRequest ==
    \/ start
    \/ MakeRequest
    \/ Responds200
    \/ Responds429
    \/ RespondsOtherStatus
    \/ NetworkError
    \/ Continue

SpecRequest == Init /\ [][NextRequest]_vars

(* The registry of two games on file under track, also with another name,  *)
(* and untrack, and the two queries called on every registry that these    *)
(* reach.                                                                  *)
NextQuery == Track \/ TrackRenamed \/ Untrack \/ ListGames \/ NotificationTargets

SpecQuery == InitPoll /\ [][NextQuery]_vars

----------------------------------------------------------------------------
(* Properties of the registry *)

Game(game_id) == Get(tracked_games, str(game_id))
Tracked(game_id) == Has(tracked_games, str(game_id))
InDocument(file, game_id) == file.state = "ok" /\ Has(file.doc, str(game_id))
ListedIds(reg) ==
    { get_tracked_games(reg, None, None)[i].id :
        i \in DOMAIN get_tracked_games(reg, None, None) }

(* C1: every entity in the registry has at least one channel entry, and    *)
(* every channel entry of every entity has at least one user_id.           *)
C1_NoEmptyWatchers ==
    \A i \in DOMAIN tracked_games :
        /\ tracked_games[i].v.watchers # EmptyDict
        /\ \A j \in DOMAIN tracked_games[i].v.watchers :
               tracked_games[i].v.watchers[j].v # <<>>

(* untrack has just removed the last user of one channel of an entity that *)
(* keeps another channel, after a snapshot update                          *)
C1_Witness ==
    /\ last.op = "untrack"
    /\ last.ok
    /\ Tracked(last.game_id)
    /\ ~Has(Game(last.game_id).watchers, str(last.channel_id))
    /\ clock > 0

(* C2: when untrack removes the last user of the last channel of an        *)
(* entity, it returns true and the entity is then absent from the          *)
(* unfiltered list and from the persisted document.                        *)
OnlyWatcher(game_id, channel_id, user_id) ==
    /\ Tracked(game_id)
    /\ Game(game_id).watchers = <<[k |-> str(channel_id), v |-> <<user_id>>]>>

C2_CascadeRemovesEntity ==
    [][ (last'.op = "untrack"
         /\ OnlyWatcher(last'.game_id, last'.channel_id, last'.user_id))
        => /\ last'.ok
           /\ last'.game_id \notin ListedIds(tracked_games')
           /\ ~InDocument(data_file', last'.game_id) ]_vars

(* the part of C2 that is about the registry in memory *)
C2_CascadeRemovesEntityInMemory ==
    [][ (last'.op = "untrack"
         /\ OnlyWatcher(last'.game_id, last'.channel_id, last'.user_id))
        => /\ last'.ok
           /\ last'.game_id \notin ListedIds(tracked_games') ]_vars

(* C3: track is idempotent, and no user_id occurs twice in the watcher     *)
(* list of a channel.                                                      *)
NoDuplicates(l) == \A i, j \in DOMAIN l : l[i] = l[j] => i = j

C3_TrackIdempotent ==
    /\ \A game_id \in GameIds, game_name \in {"CS2", "Dota 2"},
          channel_id \in ChannelIds, user_id \in UserIds :
           LET once == TrackedRegistry(tracked_games, game_id, game_name, channel_id, user_id)
           IN  TrackedRegistry(once, game_id, game_name, channel_id, user_id) = once
    /\ \A i \in DOMAIN tracked_games :
           \A j \in DOMAIN tracked_games[i].v.watchers :
               NoDuplicates(tracked_games[i].v.watchers[j].v)

(* track has just been called again for a watcher of a channel with two    *)
(* users, and left the registry as it was                                   *)
C3_Witness ==
    /\ last.op = "track"
    /\ last.unchanged
    /\ Len(Get(Game(last.game_id).watchers, str(last.channel_id))) = 2

(* C4: for price and release_date, update_game_data emits an event for the *)
(* field if and only if the observed value is present, differs from the    *)
(* stored value, and the stored value is present; the event carries the    *)
(* old and the new value; a present observed value is stored.              *)
EventsOfType(events, type) == SelectSeq(events, LAMBDA e : e.type = type)

ScalarFieldRule(events, stored, observed, after, title, game_name) ==
    /\ EventsOfType(events, title[1]) =
           IF observed # None /\ observed # stored /\ stored # None
           THEN <<[type |-> title[1],
                   message |-> <<title[2], game_name, stored[1], observed[1]>>]>>
           ELSE <<>>
    /\ observed # None => after = observed
    /\ observed = None => after = stored

C4_ScalarFields ==
    [][ (last'.op = "update" /\ Tracked(last'.game_id))
        => LET before == Game(last'.game_id)
               after == Get(tracked_games', str(last'.game_id))
           IN  /\ ScalarFieldRule(last'.events, before.current_data.price,
                                  last'.observed.price, after.current_data.price,
                                  <<"price", "Price Update">>, before.name)
               /\ ScalarFieldRule(last'.events, before.current_data.release_date,
                                  last'.observed.release_date,
                                  after.current_data.release_date,
                                  <<"release_date", "Release Date Changed">>, before.name) ]_vars

(* the second update after track: the price observed first was stored      *)
(* without an event, the different price gives exactly one price event     *)
C4_Witness ==
    /\ last.op = "update"
    /\ clock = 2
    /\ last.events = <<[type |-> "price",
                        message |-> <<"Price Update", "CS2", "$9.99", "$19.99">>]>>
    /\ Game(730).current_data.price = <<"$19.99">>

(* C5: update_game_data emits exactly one preorder event if and only if    *)
(* the observed preorder_status is present and differs from the stored     *)
(* boolean, also on the first observation; the observed value is stored.   *)
C5_Preorder ==
    [][ (last'.op = "update" /\ Tracked(last'.game_id))
        => LET before == Game(last'.game_id).current_data.preorder_status
               observed == last'.observed.preorder_status
               after == Get(tracked_games', str(last'.game_id)).current_data.preorder_status
           IN  /\ Len(EventsOfType(last'.events, "preorder")) =
                      IF observed # None /\ observed[1] # before THEN 1 ELSE 0
               /\ observed # None => after = observed[1]
               /\ observed = None => after = before ]_vars

(* the first update of a game: preorder_status true gives one preorder     *)
(* event and no other                                                      *)
C5_Witness ==
    /\ last.op = "update"
    /\ clock = 1
    /\ last.observed.preorder_status = <<TRUE>>
    /\ Len(last.events) = 1
    /\ last.events[1].type = "preorder"
    /\ Game(last.game_id).current_data.preorder_status = TRUE

(* C6: a list returned by update_game_data has at most one event of each   *)
(* kind, and the kinds come in the order price, release_date, preorder.    *)
KindRank(type) ==
    CASE type = "price" -> 1
      [] type = "release_date" -> 2
      [] type = "preorder" -> 3
      [] OTHER -> 0

C6_EventOrder ==
    /\ Len(last.events) <= 3
    /\ \A i \in DOMAIN last.events : KindRank(last.events[i].type) > 0
    /\ \A i, j \in DOMAIN last.events :
           i < j => KindRank(last.events[i].type) < KindRank(last.events[j].type)

(* an update changed price, release_date and preorder_status at once *)
C6_Witness ==
    /\ last.op = "update"
    /\ Len(last.events) = 3

(* C7: update_game_data for an id that is not tracked returns an empty     *)
(* list, leaves the registry as it is, and does not write the data file.   *)
C7_UntrackedUpdate ==
    [][ (last'.op = "update" /\ ~Tracked(last'.game_id))
        => /\ last'.events = <<>>
           /\ tracked_games' = tracked_games
           /\ ~Has(tracked_games', str(last'.game_id))
           /\ last'.saves = 0
           /\ data_file' = data_file
           /\ write_failures' = write_failures ]_vars

(* update_game_data was called for an id that is not tracked while another *)
(* game is *)
C7_Witness ==
    /\ last.op = "update"
    /\ ~Tracked(last.game_id)
    /\ tracked_games # EmptyDict
    /\ last.observed.price # None

----------------------------------------------------------------------------
(* Properties of the poll cycle *)

CycleOver == pc = "idle" /\ cycle_end \in {"completed", "caught"}

(* C8: an exception raised for one entity does not abort the cycle: when   *)
(* the cycle is over, every entity of the list has been fetched.           *)
C8_CycleReachesEveryGame == CycleOver => gi = Len(games)

(* C9: no exception escapes check_tracked_games, and after a cycle the     *)
(* loop is idle, ready for the next tick.                                  *)
C9_NoExceptionEscapes ==
    /\ pc # "stopped"
    /\ cycle_end # "escaped"
    /\ cycle_end \in {"completed", "caught"} => pc = "idle"
    /\ pc \in {"fetch", "send"} => cycle_end = "running"

(* a send raised after the snapshot of the game had been updated, and the  *)
(* exception was caught                                                    *)
C9_Witness ==
    /\ cycle_end = "caught"
    /\ pc = "idle"
    /\ sends # <<>>
    /\ fetch_failed = {}

(* C10: from the failure of its fetch to the end of the cycle, the cycle   *)
(* leaves the entity's current_data and last_check as they are, and the    *)
(* cycle makes no send for the entity.                                     *)
Snapshot(reg, game_id) ==
    IF Has(reg, str(game_id))
    THEN <<Get(reg, str(game_id)).current_data, Get(reg, str(game_id)).last_check>>
    ELSE <<>>

C10_FailedFetchKeepsSnapshot ==
    [][ \A game_id \in fetch_failed' :
           /\ commands' = commands =>
                  Snapshot(tracked_games', game_id) = Snapshot(tracked_games, game_id)
           /\ \A i \in DOMAIN sends' : sends'[i].game_id # game_id ]_vars

(* a cycle is over in which the fetch of one game gave no data and the     *)
(* update of another game was notified                                     *)
C10_Witness ==
    /\ CycleOver
    /\ fetch_failed # {}
    /\ sends # <<>>
    /\ \E game_id \in fetch_failed : Tracked(game_id)

(* C11: for one entity in one cycle, channel.send is called at most once    *)
(* per channel, whatever the number of events of the entity.                *)
C11_OneSendPerChannel ==
    \A i, j \in DOMAIN sends :
        (sends[i].game_id = sends[j].game_id /\ sends[i].channel_id = sends[j].channel_id)
        => i = j

----------------------------------------------------------------------------
(* Properties of the data file *)

WriteFailed == write_failures' > write_failures

(* C12: when the write of the data file fails during track, track does not *)
(* return success and the registry in memory is as before the call.        *)
C12_TrackWriteFailure ==
    [][ (last'.op = "track" /\ WriteFailed)
        => /\ ~last'.ok
           /\ tracked_games' = tracked_games ]_vars

(* C13: when the write of the data file fails during untrack or            *)
(* update_game_data, the call returns its no-op result (false, the empty   *)
(* list) and the registry in memory is as before the call.                 *)
C13_WriteFailureIsNoOp ==
    [][ (last'.op \in {"untrack", "update"} /\ WriteFailed)
        => /\ last'.op = "untrack" => ~last'.ok
           /\ last'.op = "update" => last'.events = <<>>
           /\ tracked_games' = tracked_games ]_vars

----------------------------------------------------------------------------
(* Properties of untrack and of the queries *)

(* the (entity, channel, user) triples of a registry, by their keys *)
Pairs(reg) ==
    { <<reg[i].k, reg[i].v.watchers[j].k, reg[i].v.watchers[j].v[n]>> :
        <<i, j, n>> \in { t \in (DOMAIN reg) \X (1..Cardinality(ChannelIds))
                                 \X (1..Cardinality(UserIds)) :
                            /\ t[2] \in DOMAIN reg[t[1]].v.watchers
                            /\ t[3] \in DOMAIN reg[t[1]].v.watchers[t[2]].v } }

(* what an entity is apart from its watchers *)
Described(game) == <<game.id, game.name, game.current_data, game.last_check>>

(* C14: untrack returns true if and only if the user was a watcher of the  *)
(* channel of the entity; on false the registry is unchanged and the data  *)
(* file is not written; on true exactly that pair is removed, an entity or *)
(* channel disappears only by the cascade, and everything else is as       *)
(* before.                                                                 *)
C14_UntrackFrame ==
    [][ last'.op = "untrack"
        => LET key == str(last'.game_id)
               pair == <<key, str(last'.channel_id), last'.user_id>>
           IN  /\ last'.ok <=> pair \in Pairs(tracked_games)
               /\ ~last'.ok => /\ tracked_games' = tracked_games
                               /\ last'.saves = 0
                               /\ data_file' = data_file
               /\ last'.ok =>
                    /\ Pairs(tracked_games') = Pairs(tracked_games) \ {pair}
                    /\ Keys(tracked_games') =
                           { p[1] : p \in Pairs(tracked_games) \ {pair} }
                    /\ \A k \in Keys(tracked_games') :
                           /\ Described(Get(tracked_games', k)) =
                                  Described(Get(tracked_games, k))
                           /\ Keys(Get(tracked_games', k).watchers) =
                                  { p[2] : p \in { q \in Pairs(tracked_games') : q[1] = k } }
                           /\ k # key => Get(tracked_games', k) = Get(tracked_games, k) ]_vars

(* untrack removed one of the two users of a channel of an entity that has *)
(* another channel, while another entity is tracked                        *)
C14_Witness ==
    /\ last.op = "untrack"
    /\ last.ok
    /\ Tracked(last.game_id)
    /\ Has(Game(last.game_id).watchers, str(last.channel_id))
    /\ Len(Get(Game(last.game_id).watchers, str(last.channel_id))) = 1
    /\ Cardinality(Keys(Game(last.game_id).watchers)) = 2
    /\ Cardinality(Keys(tracked_games)) = 2

ListedIn(reg, game_id, channel_id) ==
    \E i \in DOMAIN get_tracked_games(reg, Some(channel_id), None) :
        get_tracked_games(reg, Some(channel_id), None)[i].id = game_id

OnlyUserOf(reg, game_id, channel_id, user_id) ==
    /\ IsWatcher(reg, game_id, channel_id, user_id)
    /\ Get(Get(reg, str(game_id)).watchers, str(channel_id)) = <<user_id>>

(* C15: once untrack has removed the last watcher of an entity under       *)
(* channel X, the list for X does not return the entity until a track adds *)
(* a watcher under X, also when other channels still watch the entity.     *)
C15_UntrackedChannelNotListed ==
    [][ \A game_id \in GameIds, X \in ChannelIds :
          /\ (/\ last'.op = "untrack"
              /\ last'.game_id = game_id
              /\ last'.channel_id = X
              /\ OnlyUserOf(tracked_games, game_id, X, last'.user_id))
             => ~ListedIn(tracked_games', game_id, X)
          /\ (/\ ~ListedIn(tracked_games, game_id, X)
              /\ ~(last'.op = "track" /\ last'.game_id = game_id /\ last'.channel_id = X))
             => ~ListedIn(tracked_games', game_id, X)
          /\ (/\ last'.op = "list"
              /\ last'.channel_id = Some(X)
              /\ \E i \in DOMAIN last'.returned : last'.returned[i].id = game_id)
             => ListedIn(tracked_games, game_id, X) ]_vars

(* the list for channel 12 was asked after untrack had removed the only    *)
(* watcher of 730 under 12, and 730 is still tracked through channel 1     *)
C15_Witness ==
    /\ last.op = "list"
    /\ last.channel_id = Some(12)
    /\ last.user_id = None
    /\ \A i \in DOMAIN last.returned : last.returned[i].id # 730
    /\ Tracked(730)
    /\ ListedIn(tracked_games, 730, 1)
    /\ Game(730).current_data.price # None

(* the ids that a list with the given filters is to return *)
ExpectedIds(reg, channel_id, user_id) ==
    IF channel_id = None
    THEN { int(k) : k \in Keys(reg) }
    ELSE { int(p[1]) : p \in { q \in Pairs(reg) :
                                 /\ q[2] = str(channel_id[1])
                                 /\ user_id # None => q[3] = user_id[1] } }

C17_NotificationTargets ==
    [][ last'.op = "targets"
        => LET r == last'.returned
               targets == { <<r[i].channel_id, r[i].users>> : i \in DOMAIN r }
           IN  /\ ~Tracked(last'.game_id) => r = <<>>
               /\ Tracked(last'.game_id) =>
                    LET w == Game(last'.game_id).watchers
                    IN  /\ targets = { <<int(w[j].k), w[j].v>> : j \in DOMAIN w }
                        /\ Len(r) = Len(w)
                        /\ Cardinality({ r[i].channel_id : i \in DOMAIN r }) = Len(r)
                        /\ \A i \in DOMAIN r : r[i].users # <<>>
               /\ tracked_games' = tracked_games
               /\ data_file' = data_file ]_vars

(* the channels of a game with two channels were asked, one of them with   *)
(* two users                                                               *)
C17_Witness ==
    /\ last.op = "targets"
    /\ Len(last.returned) = 2
    /\ \E i \in DOMAIN last.returned : Len(last.returned[i].users) = 2

(* C18: when track, an untrack that returns true, or update_game_data of a *)
(* tracked entity returns and the write did not fail, the data file holds  *)
(* the registry: loading it gives the registry that is in memory.          *)
C18_DocumentEqualsRegistry ==
    [][ (last'.saves = 1 /\ ~WriteFailed)
        => /\ data_file'.state = "ok"
           /\ _load_tracking_data(data_file') = tracked_games' ]_vars

(* a second update of a tracked game was written after an earlier write    *)
(* had failed                                                              *)
C18_Witness ==
    /\ last.op = "update"
    /\ last.saves = 1
    /\ clock = 2
    /\ write_failures = 1
    /\ data_file.state = "ok"
    /\ _load_tracking_data(data_file) = tracked_games
    /\ Game(last.game_id).last_check = isoformat(2)

----------------------------------------------------------------------------
(* Properties of the schedule *)

----------------------------------------------------------------------------
(* Properties of the timestamps *)

Unobserved(observed, stored) == observed = None \/ observed = stored

(* C20: every update_game_data of a tracked entity sets last_check to the  *)
(* time of the call and writes the registry, also when it returns no       *)
(* event; a last_update that is passed is stored, and no event comes from  *)
(* it.                                                                     *)
C20_LastCheckAndLastUpdate ==
    [][ (last'.op = "update" /\ Tracked(last'.game_id))
        => LET before == Game(last'.game_id)
               after == Get(tracked_games', str(last'.game_id))
               observed == last'.observed
           IN  /\ clock' > clock
               /\ after.last_check = isoformat(clock')
               /\ last'.saves = 1
               /\ data_file' = [state |-> "ok", doc |-> json_dump(tracked_games')]
               /\ observed.last_update # None
                    => after.current_data.last_update = observed.last_update
               /\ observed.last_update = None
                    => after.current_data.last_update = before.current_data.last_update
               /\ \A i \in DOMAIN last'.events :
                      last'.events[i].type \in {"price", "release_date", "preorder"}
               /\ (/\ Unobserved(observed.price, before.current_data.price)
                   /\ Unobserved(observed.release_date, before.current_data.release_date)
                   /\ Unobserved(observed.preorder_status,
                                 Some(before.current_data.preorder_status)))
                  => last'.events = <<>> ]_vars

(* the second update with the same price and date and a later last_update: *)
(* no event, last_update and last_check are the new times                  *)
C20_Witness ==
    /\ last.op = "update"
    /\ Tracked(last.game_id)
    /\ last.events = <<>>
    /\ clock = 2
    /\ last.observed.price # None
    /\ last.observed.last_update = isoformat(1)
    /\ Game(last.game_id).current_data.last_update = isoformat(1)
    /\ Game(last.game_id).last_check = isoformat(2)

----------------------------------------------------------------------------
(* Properties of the cycle among the commands *)

(* a step of check_tracked_games, as opposed to a command of a user *)
CycleStep == commands' = commands
CommandStep == commands' # commands

(* C21: no update is lost between the cycle and the commands that run      *)
(* while it is suspended: a watcher that track added between two sends of  *)
(* the cycle, and that is a watcher still, is in the data file when the    *)
(* cycle has ended.                                                        *)
C21_AddedWatcherOnFile ==
    cycle_end \in {"completed", "caught"}
    => \A i \in 1..(Len(sends) - 1), user_id \in UserIds :
           (/\ sends[i].game_id = sends[i + 1].game_id
            /\ sends[i].channel_id = sends[i + 1].channel_id
            /\ ~Contains(sends[i].users, user_id)
            /\ Contains(sends[i + 1].users, user_id)
            /\ IsWatcher(tracked_games, sends[i].game_id, sends[i].channel_id, user_id))
           => <<str(sends[i].game_id), str(sends[i].channel_id), user_id>>
                  \in Pairs(_load_tracking_data(data_file))

(* the part of C21 that is about the interleaving: a step of the cycle     *)
(* keeps every watcher of the registry, a command keeps the snapshot of    *)
(* every entity that stays tracked, and the data file loads to the         *)
(* registry in memory after every step                                     *)
C21_NoLostUpdateWhenWritten ==
    [][ /\ CycleStep => Pairs(tracked_games') = Pairs(tracked_games)
        /\ CommandStep =>
             \A game_id \in GameIds :
                 (Tracked(game_id) /\ Has(tracked_games', str(game_id)))
                 => Snapshot(tracked_games', game_id) = Snapshot(tracked_games, game_id)
        /\ _load_tracking_data(data_file') = tracked_games' ]_vars

(* C22: track of an entity that is tracked, with any name, channel or      *)
(* user, and untrack that leaves the entity in the registry leave its id,  *)
(* name, current_data and last_check as they are, and leave every other    *)
(* entity as it is.                                                        *)
C22_SnapshotFrame ==
    [][ last'.op \in {"track", "untrack"}
        => /\ \A k \in Keys(tracked_games) \cap Keys(tracked_games') :
                  Described(Get(tracked_games', k)) = Described(Get(tracked_games, k))
           /\ \A k \in (Keys(tracked_games) \cup Keys(tracked_games')) \ {str(last'.game_id)} :
                  /\ Has(tracked_games, k)
                  /\ Has(tracked_games', k)
                  /\ Get(tracked_games', k) = Get(tracked_games, k) ]_vars

(* track added user 8 under channel 12 to game 730 with the name           *)
(* "Counter-Strike 2": the entity keeps the name and the price on file     *)
C22_Witness ==
    /\ last.op = "track"
    /\ last.channel_id = 12
    /\ last.user_id = 8
    /\ ~last.unchanged
    /\ Game(730).name = "CS2"
    /\ Game(730).current_data.price = <<"$9.99">>
    /\ Game(730).last_check = isoformat(0)
    /\ Tracked(570)

(* C23: a failure to deliver does not end the cycle: the cycle leaves a    *)
(* send for idle only after the last channel of the last entity, and a     *)
(* channel that does not resolve is passed over.                           *)
C23_DeliveryFailureIsLocal ==
    [][ (pc = "send" /\ pc' = "idle")
        => /\ cycle_end' = "completed"
           /\ gi = Len(games)
           /\ ni = Len(notifications) ]_vars

Sent == Len(sends') > Len(sends)
SentNow == sends'[Len(sends')]
ChannelIdsOf(chs) == { chs[i].channel_id : i \in DOMAIN chs }

(* a send is for the entity the cycle is at, whose fetch gave data and     *)
(* whose update_game_data in this cycle returned the event sent; the first *)
(* send follows the update that stored the snapshot, every send goes to a  *)
(* channel that get_notification_channels returned for the entity          *)
NotifiedAfterUpdate ==
    Sent => /\ gi' = gi
            /\ SentNow.game_id = games[gi].id
            /\ SentNow.game_id \notin fetch_failed'
            /\ \E n \in DOMAIN notifications' : notifications'[n].type = SentNow.type
            /\ pc = "fetch" =>
                 /\ last'.op = "update"
                 /\ last'.game_id = SentNow.game_id
                 /\ last'.events # <<>>
                 /\ notifications' = last'.events
                 /\ Get(tracked_games', str(SentNow.game_id)).last_check = isoformat(clock')
                 /\ channels' = get_notification_channels(tracked_games', SentNow.game_id)
                 /\ SentNow.channel_id \in ChannelIdsOf(channels')
            /\ pc = "send" =>
                 /\ notifications' = notifications
                 /\ SentNow.channel_id \in ChannelIdsOf(channels)

(* at the first send for a change, the data file holds the changed         *)
(* snapshot                                                                *)
NotifiedAfterWrite ==
    (Sent /\ pc = "fetch")
    => Snapshot(_load_tracking_data(data_file'), SentNow.game_id) =
           Snapshot(tracked_games', SentNow.game_id)

(* C24: in a cycle, the notification of an entity comes after its fetch    *)
(* and after update_game_data has stored and written the changed snapshot; *)
(* sends are made only for an entity whose update in this cycle returned   *)
(* an event, and only to the channels of get_notification_channels.        *)
C24_UpdateBeforeNotify == [][NotifiedAfterUpdate /\ NotifiedAfterWrite]_vars

(* the part of C24 that is about the order in the cycle and the channels   *)
C24_NotifiedAfterUpdate == [][NotifiedAfterUpdate]_vars

(* C25: every send of the cycle tags exactly the users who are watchers of *)
(* the entity in the channel at the moment of the send, and at least one,  *)
(* whatever commands ran between two sends.                                *)
C25_TagsCurrentWatchers ==
    [][ Sent
        => LET key == str(SentNow.game_id)
               channel_key == str(SentNow.channel_id)
           IN  /\ SentNow.users # <<>>
               /\ Has(tracked_games', key)
               /\ Has(Get(tracked_games', key).watchers, channel_key)
               /\ SentNow.users = Get(Get(tracked_games', key).watchers, channel_key) ]_vars

(* C26: when an entity was untracked after the cycle listed it and the     *)
(* cycle comes to it, the cycle does not put it back into the registry or  *)
(* the data file and makes no send for it; no step of the cycle adds an    *)
(* entity that is not tracked.                                             *)
C26_UntrackedMidCycle ==
    [][ CycleStep
        => /\ \A game_id \in GameIds :
                  ~Tracked(game_id)
                  => /\ ~Has(tracked_games', str(game_id))
                     /\ ~InDocument(data_file, game_id) => ~InDocument(data_file', game_id)
           /\ (pc = "fetch" /\ ~Tracked(games[gi].id))
              => /\ sends' = sends
                 /\ data_file' = data_file
                 /\ pc' # "send" ]_vars

(* the cycle listed 570, 570 was untracked before the cycle came to it,    *)
(* the fetch gave data for it, and the cycle has ended                     *)
C26_Witness ==
    /\ cycle_end = "completed"
    /\ \E i \in DOMAIN games : games[i].id = 570
    /\ last.op = "update"
    /\ last.game_id = 570
    /\ last.observed.price # None
    /\ ~Tracked(570)
    /\ ~InDocument(data_file, 570)
    /\ \A i \in DOMAIN sends : sends[i].game_id # 570

----------------------------------------------------------------------------
(* Properties of the snapshot over several updates *)

(* C27: while an entity stays tracked, a price or release_date that is     *)
(* stored does not become absent again by any call: an observation         *)
(* without the field leaves the stored value.                              *)
C27_PresentStaysPresent ==
    [][ \A game_id \in GameIds :
          (Tracked(game_id) /\ Has(tracked_games', str(game_id)))
          => LET before == Game(game_id).current_data
                 after == Get(tracked_games', str(game_id)).current_data
             IN  /\ before.price # None => after.price # None
                 /\ before.release_date # None => after.release_date # None
                 /\ (last'.op = "update" /\ last'.game_id = game_id
                     /\ last'.observed.price = None) => after.price = before.price
                 /\ (last'.op = "update" /\ last'.game_id = game_id
                     /\ last'.observed.release_date = None)
                    => after.release_date = before.release_date ]_vars

(* an update without price and release_date came after one that had stored *)
(* both, and both are still stored                                         *)
C27_Witness ==
    /\ last.op = "update"
    /\ clock = 2
    /\ last.observed.price = None
    /\ last.observed.release_date = None
    /\ Tracked(last.game_id)
    /\ Game(last.game_id).current_data.price # None
    /\ Game(last.game_id).current_data.release_date # None

Compared(data) == <<data.price, data.release_date, data.preorder_status>>

(* C28: update_game_data is idempotent on the snapshot: after an update of *)
(* a tracked entity, the same observation applied again returns no event   *)
(* and leaves price, release_date and preorder_status as they are; and an  *)
(* update that directly follows one with the same observation of the same  *)
(* entity returns no event.                                                *)
C28_UpdateIdempotent ==
    [][ (last'.op = "update" /\ Has(tracked_games', str(last'.game_id)))
        => LET o == last'.observed
               game == Get(tracked_games', str(last'.game_id))
           IN  /\ Notifications(game, o.price, o.release_date, o.preorder_status) = <<>>
               /\ \A again \in {o.last_update, isoformat(clock')} :
                      Compared(UpdatedData(game.current_data, o.price, o.release_date,
                                           o.preorder_status, again))
                          = Compared(game.current_data)
               /\ (/\ last.op = "update"
                   /\ last.game_id = last'.game_id
                   /\ Compared(last.observed) = Compared(o))
                  => /\ last'.events = <<>>
                     /\ Compared(game.current_data) = Compared(Game(last'.game_id).current_data) ]_vars

(* the second of two updates of 730 with a price, a date and a preorder    *)
(* status that are now the stored ones returned no event                   *)
C28_Witness ==
    /\ last.op = "update"
    /\ clock = 2
    /\ last.events = <<>>
    /\ last.observed.price = <<"$19.99">>
    /\ last.observed.release_date = <<"Apr 2">>
    /\ last.observed.preorder_status = <<TRUE>>
    /\ Compared(Game(730).current_data) = <<<<"$19.99">>, <<"Apr 2">>, TRUE>>
    /\ Game(730).current_data.last_update = isoformat(1)

----------------------------------------------------------------------------
(* Properties of the request helper *)

(* C29: a call of _make_request on a started client ends after at most 3   *)
(* attempts, and ends by returning a mapping or by raising SteamAPIError,  *)
(* whatever each attempt gave.                                             *)
C29_RequestEnds ==
    /\ Len(tried) <= 3
    /\ (rq_pc = "returned" /\ tried # <<>>) => result \in {"mapping", "SteamAPIError"}

(* the part of C29 that is about the number of attempts *)
C29_AtMostThreeAttempts ==
    /\ Len(tried) <= 3
    /\ attempt \in 0..2
    /\ rq_pc = "get" => Len(tried) = attempt

====
